---- MODULE Spec2Model ----
(***************************************************************************)
(* Model of the eww configuration compiler, src/config/mod.rs:             *)
(*   EwwConfig::from_xml_element      (assembly of the three sections)     *)
(*   EwwWindowDefinition::from_xml_element, ScriptVar::from_xml_element    *)
(*   EwwConfig::generate_initial_state (bootstrap of the variable table)   *)
(* The XML adapter (xml_ext), the widget parsers (element), parse_duration *)
(* and run_command live outside this file and are modelled from their      *)
(* documented interface.                                                   *)
(***************************************************************************)
EXTENDS Integers, Sequences, FiniteSets, TLC

\* Largest number of child elements in all the sections of a document together.
MaxElems == 3

(***************************************************************************)
(* Result<T> of anyhow: Ok(value) or an error carrying its kind, the thing *)
(* it names, the source position (path below the root) and the stack of    *)
(* contexts attached by .context().                                        *)
(***************************************************************************)
Ok(v) == [ok |-> TRUE, val |-> v]

Err(kind, what, at) == [ok |-> FALSE, kind |-> kind, what |-> what, at |-> at, ctx |-> <<>>]

context(r, text) == IF r.ok THEN r ELSE [r EXCEPT !.ctx = Append(@, text)]

(***************************************************************************)
(* XML nodes: an element has a tag, attributes (a map) and child nodes; a  *)
(* text node has tag "#text" and its text.                                 *)
(***************************************************************************)
EmptyMap == [k \in {} |-> k]

Elem(tag, attrs, kids) == [tag |-> tag, attrs |-> attrs, kids |-> kids, text |-> ""]

Text(t) == [tag |-> "#text", attrs |-> EmptyMap, kids |-> <<>>, text |-> t]

IsText(node) == node.tag = "#text"

\* ---- xml_ext: the node adapter -------------------------------------------
\* child_elements: the positions in xml.kids of the element children, text
\* nodes skipped; iterated in increasing (document) order.
child_elements(xml) == {i \in DOMAIN xml.kids : ~IsText(xml.kids[i])}

\* Required single named child: fails if zero or more than one child matches.
child(xml, tagname, at) ==
    LET matches == {i \in child_elements(xml) : xml.kids[i].tag = tagname}
    IN  IF Cardinality(matches) = 1
        THEN LET i == CHOOSE j \in matches : TRUE
             IN  Ok([node |-> xml.kids[i], at |-> Append(at, i)])
        ELSE Err("MissingChild", tagname, at)

\* Required attribute.
attr(xml, name, at) ==
    IF name \in DOMAIN xml.attrs THEN Ok(xml.attrs[name])
    ELSE Err("MissingAttribute", name, at)

\* Required single child, no name filter: fails if not exactly one child.
only_child(xml, at) ==
    IF Len(xml.kids) = 1 THEN Ok(xml.kids[1])
    ELSE Err("ChildCardinality", xml.tag, at)

as_tag_string(node) == "<" \o node.tag \o ">"

as_text(node, at) == IF IsText(node) THEN Ok(node) ELSE Err("NotText", node.tag, at)

as_text_or_sourcecode(node) == IF IsText(node) THEN node.text ELSE as_tag_string(node)

\* ---- value::PrimitiveValue ------------------------------------------------
Numerals == {"0", "1", "2", "7"}

Booleans == {"true", "false"}

parse_string(s) ==
    IF s \in Numerals THEN [kind |-> "Number", text |-> s]
    ELSE IF s \in Booleans THEN [kind |-> "Boolean", text |-> s]
    ELSE [kind |-> "String", text |-> s]

\* str::parse::<i32>() on an attribute value.
NumeralValue == ("0" :> 0) @@ ("1" :> 1) @@ ("2" :> 2) @@ ("7" :> 7)

parse_i32(s, what, at) ==
    IF s \in DOMAIN NumeralValue THEN Ok(NumeralValue[s])
    ELSE Err("AttributeParseError", what, at)

\* util::parse_duration: "10s", "5m", ... to seconds.
DurationValue == ("10s" :> 10) @@ ("5m" :> 300)

parse_duration(s, at) ==
    IF s \in DOMAIN DurationValue THEN Ok(DurationValue[s])
    ELSE Err("DurationParseError", "interval", at)

\* ---- element: widget parsers ---------------------------------------------
WidgetUse_from_xml_node(node, at) ==
    IF IsText(node) THEN Ok([name |-> "text", text |-> node.text])
    ELSE Ok([name |-> node.tag, text |-> ""])

WidgetDefinition_from_xml_element(xml, at) ==
    IF xml.tag # "def" THEN Err("TagMismatch", "def", at)
    ELSE LET name == attr(xml, "name", at) IN
         IF ~name.ok THEN name
         ELSE LET body == only_child(xml, at) IN
              IF ~body.ok THEN body
              ELSE LET use == WidgetUse_from_xml_node(body.val, Append(at, 1)) IN
                   IF ~use.ok THEN use
                   ELSE Ok([name |-> name.val, structure |-> use.val])

\* ---- ScriptVar::from_xml_element -----------------------------------------
ScriptVar_from_xml_element(xml, at) ==
    IF xml.tag # "script-var" THEN Err("TagMismatch", "script-var", at)
    ELSE LET name == attr(xml, "name", at) IN
         IF ~name.ok THEN name
         ELSE LET raw == attr(xml, "interval", at) IN
              IF ~raw.ok THEN raw
              ELSE LET interval == parse_duration(raw.val, at) IN
                   IF ~interval.ok THEN interval
                   ELSE LET only == only_child(xml, at) IN
                        IF ~only.ok THEN only
                        ELSE LET txt == as_text(only.val, at) IN
                             IF ~txt.ok THEN txt
                             ELSE Ok([name |-> name.val,
                                      command |-> txt.val.text,
                                      interval |-> interval.val])

\* ---- EwwWindowDefinition::from_xml_element -------------------------------
\* (x, y) of a size/pos node: attr("x")?.parse()?, then attr("y")?.parse()?.
Pair_from_node(n) ==
    LET xa == attr(n.node, "x", n.at) IN
    IF ~xa.ok THEN xa
    ELSE LET x == parse_i32(xa.val, "x", n.at) IN
         IF ~x.ok THEN x
         ELSE LET ya == attr(n.node, "y", n.at) IN
              IF ~ya.ok THEN ya
              ELSE LET y == parse_i32(ya.val, "y", n.at) IN
                   IF ~y.ok THEN y
                   ELSE Ok(<<x.val, y.val>>)

EwwWindowDefinition_from_xml_element(xml, at) ==
    IF xml.tag # "window" THEN Err("TagMismatch", "window", at)
    ELSE LET size_node == child(xml, "size", at) IN
         IF ~size_node.ok THEN size_node
         ELSE LET size == Pair_from_node(size_node.val) IN
              IF ~size.ok THEN size
              ELSE LET pos_node == child(xml, "pos", at) IN
                   IF ~pos_node.ok THEN pos_node
                   ELSE LET position == Pair_from_node(pos_node.val) IN
                        IF ~position.ok THEN position
                        ELSE LET widget_node == child(xml, "widget", at) IN
                             IF ~widget_node.ok THEN widget_node
                             ELSE LET root == only_child(widget_node.val.node, widget_node.val.at) IN
                                  IF ~root.ok THEN root
                                  ELSE LET widget == WidgetUse_from_xml_node(root.val, Append(widget_node.val.at, 1)) IN
                                       IF ~widget.ok THEN widget
                                       ELSE Ok([position |-> position.val,
                                                size |-> size.val,
                                                widget |-> widget.val])

\* ---- EwwConfig::from_xml_element -----------------------------------------
\* Variant: the entry already stored for a key is kept.
MapInsertKeepsFirst(m, k, v) == m @@ (k :> v)

\* HashMap::insert, and the insertion done by collect(): a later entry for a
\* key replaces the earlier one.
MapInsert(m, k, v) == (k :> v) @@ m

\* Variant: the entry is put in front.
PushFront(vec, x) == <<x>> \o vec

\* Vec::push
Push(vec, x) == Append(vec, x)

\* .map(..).collect::<Result<HashMap>>() over the children of `definitions`:
\* stops at the first Err.
RECURSIVE CollectDefinitions(_, _, _, _)
CollectDefinitions(block, at, i, acc) ==
    IF i > Len(block.kids) THEN Ok(acc)
    ELSE IF i \notin child_elements(block) THEN CollectDefinitions(block, at, i + 1, acc)
    ELSE LET def == WidgetDefinition_from_xml_element(block.kids[i], Append(at, i)) IN
         IF ~def.ok THEN def
         ELSE CollectDefinitions(block, at, i + 1, MapInsert(acc, def.val.name, def.val))

ParseDefinitions(xml) ==
    LET block == child(xml, "definitions", <<>>) IN
    IF ~block.ok THEN block
    ELSE context(CollectDefinitions(block.val.node, block.val.at, 1, EmptyMap),
                 "error parsing widget definitions")

RECURSIVE CollectWindows(_, _, _, _)
CollectWindows(block, at, i, acc) ==
    IF i > Len(block.kids) THEN Ok(acc)
    ELSE IF i \notin child_elements(block) THEN CollectWindows(block, at, i + 1, acc)
    ELSE LET name == attr(block.kids[i], "name", Append(at, i)) IN
         IF ~name.ok THEN name
         ELSE LET win == EwwWindowDefinition_from_xml_element(block.kids[i], Append(at, i)) IN
              IF ~win.ok THEN win
              ELSE CollectWindows(block, at, i + 1, MapInsert(acc, name.val, win.val))

\* Variant: the failure of a window is propagated without the context.
ParseWindowsNoContext(xml) ==
    LET block == child(xml, "windows", <<>>) IN
    IF ~block.ok THEN block
    ELSE CollectWindows(block.val.node, block.val.at, 1, EmptyMap)

ParseWindows(xml) ==
    LET block == child(xml, "windows", <<>>) IN
    IF ~block.ok THEN block
    ELSE context(CollectWindows(block.val.node, block.val.at, 1, EmptyMap),
                 "error parsing window definitions")

\* Variant: the failure of only_child() is propagated.
ParseVarElementStrict(node, at) ==
    LET name == attr(node, "name", at) IN
    IF ~name.ok THEN name
    ELSE LET only == only_child(node, at) IN
         IF ~only.ok THEN only
         ELSE Ok(<<name.val, parse_string(as_text_or_sourcecode(only.val))>>)

\* The "var" arm: the name, then the default from the only child, the empty
\* text when only_child() fails.
ParseVarElement(node, at) ==
    LET name == attr(node, "name", at) IN
    IF ~name.ok THEN name
    ELSE LET only == only_child(node, at)
             text == IF only.ok THEN as_text_or_sourcecode(only.val) ELSE ""
         IN  Ok(<<name.val, parse_string(text)>>)

\* for node in variables_block.child_elements() { match node.tag_name() ... }
RECURSIVE VariablesLoop(_, _, _, _)
VariablesLoop(block, at, i, acc) ==
    IF i > Len(block.kids) THEN Ok(acc)
    ELSE IF i \notin child_elements(block) THEN VariablesLoop(block, at, i + 1, acc)
    ELSE LET node == block.kids[i] IN
         CASE node.tag = "var" ->
                LET v == ParseVarElement(node, Append(at, i)) IN
                IF ~v.ok THEN v
                ELSE VariablesLoop(block, at, i + 1,
                        [acc EXCEPT !.initial_variables = MapInsert(@, v.val[1], v.val[2])])
           [] node.tag = "script-var" ->
                LET sv == ScriptVar_from_xml_element(node, Append(at, i)) IN
                IF ~sv.ok THEN sv
                ELSE VariablesLoop(block, at, i + 1,
                        [acc EXCEPT !.script_vars = Push(@, sv.val)])
           [] OTHER -> Err("IllegalElement", as_tag_string(node), Append(at, i))

NoVariables == [initial_variables |-> EmptyMap, script_vars |-> <<>>]

\* Variant: the first `variables` child is taken when there are several.
ParseVariablesFirstBlock(xml) ==
    LET matches == {i \in child_elements(xml) : xml.kids[i].tag = "variables"} IN
    IF matches = {} THEN Ok(NoVariables)
    ELSE LET i == CHOOSE j \in matches : \A h \in matches : j <= h
         IN  VariablesLoop(xml.kids[i], <<i>>, 1, NoVariables)

\* Variant: the failed lookup is propagated (`?` in place of .ok()).
ParseVariablesRequired(xml) ==
    LET variables_block == child(xml, "variables", <<>>) IN
    IF ~variables_block.ok THEN variables_block
    ELSE VariablesLoop(variables_block.val.node, variables_block.val.at, 1, NoVariables)

\* let variables_block = xml.child("variables").ok(); if let Some(..) { .. }
ParseVariables(xml) ==
    LET variables_block == child(xml, "variables", <<>>) IN
    IF ~variables_block.ok THEN Ok(NoVariables)
    ELSE VariablesLoop(variables_block.val.node, variables_block.val.at, 1, NoVariables)

\* Variant: the windows section is parsed before the definitions section.
from_xml_element_windows_first(xml) ==
    LET windows == ParseWindows(xml) IN
    IF ~windows.ok THEN windows
    ELSE LET definitions == ParseDefinitions(xml) IN
         IF ~definitions.ok THEN definitions
         ELSE LET variables == ParseVariables(xml) IN
              IF ~variables.ok THEN variables
              ELSE Ok([widgets |-> definitions.val,
                       windows |-> windows.val,
                       initial_variables |-> variables.val.initial_variables,
                       script_vars |-> variables.val.script_vars])

from_xml_element(xml) ==
    LET definitions == ParseDefinitions(xml) IN
    IF ~definitions.ok THEN definitions
    ELSE LET windows == ParseWindows(xml) IN
         IF ~windows.ok THEN windows
         ELSE LET variables == ParseVariables(xml) IN
              IF ~variables.ok THEN variables
              ELSE Ok([widgets |-> definitions.val,
                       windows |-> windows.val,
                       initial_variables |-> variables.val.initial_variables,
                       script_vars |-> variables.val.script_vars])

\* ---- EwwConfig::generate_initial_state -----------------------------------
\* Variant: an entry already in the map is kept.
ExtendKeepsExisting(vars, defaults) == vars @@ defaults

\* vars.extend(defaults): every default is inserted over what is there.
Extend(vars, defaults) == defaults @@ vars

\* eww_state::run_command: the trimmed output of the process as a value.
Trimmed == ("7" :> "7") @@ ("hi\n" :> "hi")

CommandOutputs == DOMAIN Trimmed

run_command_value(output) == parse_string(Trimmed[output])

\* ---- the documents --------------------------------------------------------
NoAttrs == EmptyMap

Named(name) == "name" :> name

Def(name, body) == Elem("def", Named(name), <<Elem(body, NoAttrs, <<>>)>>)

DefElems ==
    { Def("clock", "box"), Def("clock", "label"),
      Elem("def", NoAttrs, <<Elem("box", NoAttrs, <<>>)>>) }

XY(tag, x, y) == Elem(tag, ("x" :> x) @@ ("y" :> y), <<>>)

Widget(name) == Elem("widget", NoAttrs, <<Elem(name, NoAttrs, <<>>)>>)

WindowElems ==
    { Elem("window", Named("bar"), <<XY("size", "1", "1"), XY("pos", "0", "0"), Widget("clock")>>),
      Elem("window", Named("bar"), <<XY("pos", "2", "2"), XY("size", "7", "1"), Widget("box")>>),
      Elem("window", Named("bar"), <<XY("size", "1", "1"), Widget("clock")>>),
      Elem("window", Named("bar"), <<XY("pos", "left", "0"), XY("size", "1", "big"), Widget("clock")>>),
      Elem("window", NoAttrs, <<XY("size", "1", "1"), XY("pos", "0", "0"), Widget("clock")>>),
      Elem("var", Named("bar"), <<Text("1")>>) }

ScriptVarElem(name, interval, kids) ==
    Elem("script-var", Named(name) @@ ("interval" :> interval), kids)

VarElems ==
    { Elem("var", Named("a"), <<Text("1")>>),
      Elem("var", Named("a"), <<>>),
      Elem("var", Named("a"), <<Text("x"), Elem("b", NoAttrs, <<>>)>>),
      Elem("var", NoAttrs, <<Text("1")>>),
      ScriptVarElem("a", "10s", <<Text("date")>>),
      ScriptVarElem("b", "5m", <<Text("whoami")>>),
      ScriptVarElem("a", "soon", <<Text("date")>>),
      Elem("foo", NoAttrs, <<>>) }

\* The children of the root: which sections a document has, in which order.
Layouts ==
    { <<"definitions", "windows">>,
      <<"definitions", "windows", "variables">>,
      <<"windows", "definitions", "variables">>,
      <<"variables", "windows", "definitions">>,
      <<"definitions", "windows", "variables", "variables">>,
      <<"variables", "definitions", "variables", "windows">>,
      <<"definitions", "variables">>,
      <<"windows", "variables">>,
      <<"definitions", "definitions", "windows">>,
      <<"definitions", "windows", "windows", "variables">> }

Universe(tag) ==
    CASE tag = "definitions" -> DefElems
      [] tag = "windows" -> WindowElems
      [] tag = "variables" -> VarElems

\* An element together with the section (position in the layout) it is put in.
Slots(layout) == UNION { {<<i, e>> : e \in Universe(layout[i])} : i \in DOMAIN layout }

\* At most MaxElems elements, listed in document order.
Fillings(layout) ==
    UNION { {f \in [1..n -> Slots(layout)] : \A j \in 1..(n - 1) : f[j][1] <= f[j + 1][1]}
            : n \in 0..MaxElems }

KidsOf(f, i) ==
    LET Here(s) == s[1] = i
        mine == SelectSeq(f, Here)
    IN  [j \in 1..Len(mine) |-> mine[j][2]]

Document(layout, f) ==
    Elem("eww", NoAttrs, [i \in 1..Len(layout) |-> Elem(layout[i], NoAttrs, KidsOf(f, i))])

\* ---- the state machine ----------------------------------------------------
VARIABLES
    document,       \* the root element handed to the assembler
    result,         \* what from_xml_element returned (None before the call)
    pc,             \* start, failed, loaded, iter, running, done
    next_var,       \* position of the script_vars iterator
    vars,           \* the map being collected by generate_initial_state
    trace,          \* the commands spawned and exited, in order
    initial_state   \* what generate_initial_state returned (None before)

vars_all == <<document, result, pc, next_var, vars, trace, initial_state>>

None == [ok |-> FALSE, kind |-> "None"]

Init ==
    /\ \E layout \in Layouts : \E f \in Fillings(layout) : document = Document(layout, f)
    /\ result = None
    /\ pc = "start"
    /\ next_var = 0
    /\ vars = EmptyMap
    /\ trace = <<>>
    /\ initial_state = None

\* read_from_file, from the root element on.
read_from_file ==
    /\ pc = "start"
    /\ result' = from_xml_element(document)
    /\ pc' = IF result'.ok THEN "loaded" ELSE "failed"
    /\ UNCHANGED <<document, next_var, vars, trace, initial_state>>

config == result.val

\* The runtime calls generate_initial_state: the iterator is created.
generate_initial_state_call ==
    /\ pc = "loaded"
    /\ pc' = "iter"
    /\ next_var' = 1
    /\ vars' = EmptyMap
    /\ UNCHANGED <<document, result, trace, initial_state>>

\* The closure of .map() is entered for the next entry: run_command spawns.
run_command_spawn ==
    /\ pc = "iter"
    /\ next_var <= Len(config.script_vars)
    /\ trace' = Append(trace, [ev |-> "spawn", var |-> next_var, out |-> ""])
    /\ pc' = "running"
    /\ UNCHANGED <<document, result, next_var, vars, initial_state>>

\* The process exits with an output: (name, value) is inserted; next entry.
run_command_ok ==
    /\ pc = "running"
    /\ \E output \in CommandOutputs :
         /\ vars' = MapInsert(vars, config.script_vars[next_var].name, run_command_value(output))
         /\ trace' = Append(trace, [ev |-> "exit", var |-> next_var, out |-> output])
    /\ next_var' = next_var + 1
    /\ pc' = "iter"
    /\ UNCHANGED <<document, result, initial_state>>

\* Variant: a failed variable is skipped and the iteration goes on.
run_command_err_skips ==
    /\ pc = "running"
    /\ trace' = Append(trace, [ev |-> "fail", var |-> next_var, out |-> ""])
    /\ next_var' = next_var + 1
    /\ pc' = "iter"
    /\ UNCHANGED <<document, result, vars, initial_state>>

\* run_command fails: `?` leaves the closure, collect() stops and returns Err.
run_command_err ==
    /\ pc = "running"
    /\ trace' = Append(trace, [ev |-> "fail", var |-> next_var, out |-> ""])
    /\ initial_state' = Err("ExternalCommandError", config.script_vars[next_var].command, <<next_var>>)
    /\ pc' = "done"
    /\ UNCHANGED <<document, result, next_var, vars>>

\* The iterator is exhausted: the defaults are laid over, the map is returned.
generate_initial_state_return ==
    /\ pc = "iter"
    /\ next_var > Len(config.script_vars)
    /\ vars' = Extend(vars, config.initial_variables)
    /\ initial_state' = Ok(vars')
    /\ pc' = "done"
    /\ UNCHANGED <<document, result, next_var, trace>>

Next ==
    \/ read_from_file
    \/ generate_initial_state_call
    \/ run_command_spawn
    \/ run_command_ok
    \/ run_command_err
    \/ generate_initial_state_return

Spec == Init /\ [][Next]_vars_all

TypeOK ==
    /\ pc \in {"start", "failed", "loaded", "iter", "running", "done"}
    /\ next_var \in 0..(MaxElems + 1)

\* ---- the document, described independently of the parsers ----------------
Parsed == pc # "start"

Failed == Parsed /\ ~result.ok

Loaded == Parsed /\ result.ok

SectionsTagged(tag) == {s \in DOMAIN document.kids : document.kids[s].tag = tag}

Has(e, a) == a \in DOMAIN e.attrs

KidsTagged(e, tag) == {k \in DOMAIN e.kids : e.kids[k].tag = tag}

ValidDef(e) == e.tag = "def" /\ Has(e, "name") /\ Len(e.kids) = 1

ValidXY(e) == Has(e, "x") /\ Has(e, "y") /\ e.attrs["x"] \in Numerals /\ e.attrs["y"] \in Numerals

ValidWidgetChild(e) == Len(e.kids) = 1

ValidWindow(e) ==
    /\ e.tag = "window" /\ Has(e, "name")
    /\ \A t \in {"size", "pos", "widget"} : Cardinality(KidsTagged(e, t)) = 1
    /\ \A k \in KidsTagged(e, "size") \cup KidsTagged(e, "pos") : ValidXY(e.kids[k])
    /\ \A k \in KidsTagged(e, "widget") : ValidWidgetChild(e.kids[k])

ValidVar(e) == e.tag = "var" /\ Has(e, "name")

ValidScriptVar(e) ==
    /\ e.tag = "script-var" /\ Has(e, "name") /\ Has(e, "interval")
    /\ e.attrs["interval"] \in DOMAIN DurationValue
    /\ Len(e.kids) = 1 /\ IsText(e.kids[1])

ValidVariable(e) == ValidVar(e) \/ ValidScriptVar(e)

ValidEntry(tag, e) ==
    CASE tag = "definitions" -> ValidDef(e)
      [] tag = "windows" -> ValidWindow(e)
      [] tag = "variables" -> ValidVariable(e)

\* Exactly one section with this tag, and every child of it is valid.
SectionValid(tag) ==
    /\ Cardinality(SectionsTagged(tag)) = 1
    /\ \A s \in SectionsTagged(tag) : \A i \in DOMAIN document.kids[s].kids :
          ValidEntry(tag, document.kids[s].kids[i])

SectionsValid == SectionValid("definitions") /\ SectionValid("windows")

\* The children of the variables block the assembler iterates: those of the
\* single `variables` child; none when the lookup of that child fails.
IteratedVariables ==
    IF Cardinality(SectionsTagged("variables")) = 1
    THEN document.kids[CHOOSE s \in SectionsTagged("variables") : TRUE].kids
    ELSE <<>>

Max(S) == CHOOSE x \in S : \A y \in S : y <= x

Min(S) == CHOOSE x \in S : \A y \in S : x <= y

ScriptNames == {config.script_vars[i].name : i \in DOMAIN config.script_vars}

\* The exits of the commands of the variables called `name`.
ExitsOf(name) ==
    {j \in DOMAIN trace : trace[j].ev = "exit" /\ config.script_vars[trace[j].var].name = name}

Returned == pc = "done" /\ initial_state.ok

\* C1: when every command succeeds, generate_initial_state returns a map whose
\* keys are the script variables' names together with the keys of
\* initial_variables; a key of initial_variables maps to its static default,
\* also when a script variable of that name ran, and any other key maps to the
\* output of the (last) script variable of that name.
C1_DefaultsOverlayScripts ==
    Returned =>
        LET m == initial_state.val
            defaults == config.initial_variables
        IN  /\ DOMAIN m = ScriptNames \cup DOMAIN defaults
            /\ \A k \in DOMAIN m :
                 IF k \in DOMAIN defaults THEN m[k] = defaults[k]
                 ELSE /\ ExitsOf(k) # {}
                      /\ m[k] = run_command_value(trace[Max(ExitsOf(k))].out)

C1_Witness ==
    /\ Returned
    /\ \E k \in ScriptNames \cap DOMAIN config.initial_variables :
         /\ ExitsOf(k) # {}
         /\ run_command_value(trace[Max(ExitsOf(k))].out) # config.initial_variables[k]
         /\ initial_state.val[k] = config.initial_variables[k]

Failures == {j \in DOMAIN trace : trace[j].ev = "fail"}

\* C2: when a command fails, generate_initial_state returns an error and no
\* map (no partial result, no skipping, no defaults on their own), and the
\* failure is the last thing it did: no later command is executed.
C2_FirstFailureAborts ==
    \A j \in Failures :
        /\ j = Len(trace)
        /\ pc = "done"
        /\ ~initial_state.ok
        /\ initial_state.kind = "ExternalCommandError"
        /\ "val" \notin DOMAIN initial_state

C2_Witness ==
    /\ pc = "done"
    /\ Failures # {}
    /\ trace[Len(trace)].var < Len(config.script_vars)
    /\ Len(trace) > 2

\* The ScriptVar of a valid script-var element.
ScriptVarOf(e) ==
    [name |-> e.attrs["name"], command |-> e.kids[1].text, interval |-> DurationValue[e.attrs["interval"]]]

ScriptVarElements == {i \in DOMAIN IteratedVariables : IteratedVariables[i].tag = "script-var"}

\* C3: script_vars holds one entry per script-var element of the variables
\* block, in document order, duplicates of a name included; and the commands
\* run one after another in that order: the n-th spawn is that of entry n, it
\* follows the exit of entry n-1, and no entry is spawned twice.
C3_SequentialInDeclarationOrder ==
    /\ Loaded =>
         /\ Len(config.script_vars) = Cardinality(ScriptVarElements)
         /\ \A i \in ScriptVarElements :
              LET n == Cardinality({j \in ScriptVarElements : j <= i})
              IN  config.script_vars[n] = ScriptVarOf(IteratedVariables[i])
    /\ \A j \in DOMAIN trace :
         IF trace[j].ev = "spawn"
         THEN /\ trace[j].var = Cardinality({h \in 1..(j - 1) : trace[h].ev = "spawn"}) + 1
              /\ j > 1 => trace[j - 1].ev = "exit" /\ trace[j - 1].var = trace[j].var - 1
         ELSE j > 1 /\ trace[j - 1].ev = "spawn" /\ trace[j - 1].var = trace[j].var

C3_Witness ==
    /\ Returned
    /\ Len(config.script_vars) >= 2
    /\ config.script_vars[1].name = config.script_vars[2].name
    /\ Len(trace) = 2 * Len(config.script_vars)

\* C4: a document without a variables child, whose definitions and windows
\* sections parse, is assembled with no defaults and no script variables, and
\* generate_initial_state on it returns the empty map without running a command.
C4_NoVariablesBlock ==
    (Parsed /\ SectionsValid /\ SectionsTagged("variables") = {}) =>
        /\ result.ok
        /\ config.initial_variables = EmptyMap
        /\ config.script_vars = <<>>
        /\ trace = <<>>
        /\ pc = "done" => initial_state = Ok(EmptyMap)

C4_Witness ==
    /\ pc = "done"
    /\ SectionsValid
    /\ SectionsTagged("variables") = {}
    /\ DOMAIN config.windows # {}
    /\ initial_state = Ok(EmptyMap)

\* C5: a variables block containing an element that is neither var nor
\* script-var, after valid elements only, makes the assembly fail with
\* IllegalElement naming its tag (the definitions and windows sections being
\* valid, so that the variables are reached); it is never silently ignored.
C5_IllegalElementRejected ==
    (Parsed /\ SectionsValid) =>
        \A s \in SectionsTagged("variables") :
            LET kids == document.kids[s].kids IN
            \A i \in DOMAIN kids :
                (/\ kids[i].tag \notin {"var", "script-var"}
                 /\ \A j \in 1..(i - 1) : ValidVariable(kids[j]))
                => /\ ~result.ok
                   /\ result.kind = "IllegalElement"
                   /\ result.what = as_tag_string(kids[i])

TheSection(tag) == CHOOSE s \in SectionsTagged(tag) : TRUE

KidsOfSection(tag) == document.kids[TheSection(tag)].kids

Named_(kids, tag, name) == {i \in DOMAIN kids : kids[i].tag = tag /\ kids[i].attrs["name"] = name}

NamesOf(kids, tag) == {kids[i].attrs["name"] : i \in {j \in DOMAIN kids : kids[j].tag = tag}}

\* C6: after a successful assembly each keyed collection has exactly the
\* names declared in its section and the entry of a name is the one built from
\* the last element carrying it; duplicates are not an error: a document
\* whose entries are all valid is assembled.
C6_LastWriteWins ==
    /\ Loaded =>
         LET defs == KidsOfSection("definitions")
             wins == KidsOfSection("windows")
             decl == IteratedVariables
         IN  /\ DOMAIN config.widgets = NamesOf(defs, "def")
             /\ \A n \in DOMAIN config.widgets :
                  config.widgets[n] =
                      WidgetDefinition_from_xml_element(defs[Max(Named_(defs, "def", n))], <<>>).val
             /\ DOMAIN config.windows = NamesOf(wins, "window")
             /\ \A n \in DOMAIN config.windows :
                  config.windows[n] =
                      EwwWindowDefinition_from_xml_element(wins[Max(Named_(wins, "window", n))], <<>>).val
             /\ DOMAIN config.initial_variables = NamesOf(decl, "var")
             /\ \A n \in DOMAIN config.initial_variables :
                  config.initial_variables[n] =
                      ParseVarElement(decl[Max(Named_(decl, "var", n))], <<>>).val[2]
    /\ (/\ Parsed
        /\ SectionsValid
        /\ \A i \in DOMAIN IteratedVariables : ValidVariable(IteratedVariables[i]))
       => result.ok

C6_Witness ==
    /\ Loaded
    /\ \E i, j \in DOMAIN KidsOfSection("windows") :
         LET wins == KidsOfSection("windows") IN
         /\ i < j
         /\ wins[i].attrs["name"] = wins[j].attrs["name"]
         /\ wins[i] # wins[j]
         /\ Cardinality(DOMAIN config.windows) = 1
         /\ config.windows[wins[j].attrs["name"]].size = <<7, 1>>

\* ---- the invalid entries of a document, by position -----------------------
\* p comes before q in document order (an element before its children).
Before(p, q) ==
    \E n \in 0..Len(p) :
        /\ n <= Len(q)
        /\ \A j \in 1..n : p[j] = q[j]
        /\ \/ n = Len(p)
           \/ n < Len(q) /\ p[n + 1] < q[n + 1]

InvalidWindowItself(e) ==
    \/ e.tag # "window"
    \/ ~Has(e, "name")
    \/ \E t \in {"size", "pos", "widget"} : Cardinality(KidsTagged(e, t)) # 1

InvalidWindowKids(e) ==
    IF e.tag # "window" THEN {}
    ELSE {k \in KidsTagged(e, "size") \cup KidsTagged(e, "pos") : ~ValidXY(e.kids[k])}
         \cup {k \in KidsTagged(e, "widget") : ~ValidWidgetChild(e.kids[k])}

InvalidEntries ==
    UNION { UNION {
        LET tag == document.kids[s].tag
            e == document.kids[s].kids[i]
        IN  IF tag = "windows"
            THEN (IF InvalidWindowItself(e) THEN {<<s, i>>} ELSE {})
                 \cup {<<s, i, k>> : k \in InvalidWindowKids(e)}
            ELSE IF ValidEntry(tag, e) THEN {} ELSE {<<s, i>>}
        : i \in DOMAIN document.kids[s].kids }
        : s \in DOMAIN document.kids }

\* C7 as stated: a failed assembly reports the invalid entry that comes first
\* in the document (documents with one definitions, one windows and at most
\* one variables section).
C7_FirstInDocumentOrder ==
    (/\ Failed
     /\ Cardinality(SectionsTagged("definitions")) = 1
     /\ Cardinality(SectionsTagged("windows")) = 1
     /\ Cardinality(SectionsTagged("variables")) <= 1)
    => /\ result.at \in InvalidEntries
       /\ \A p \in InvalidEntries : Before(result.at, p)

InvalidIn(tag) ==
    {i \in DOMAIN KidsOfSection(tag) : ~ValidEntry(tag, KidsOfSection(tag)[i])}

TheKid(e, tag) == CHOOSE k \in KidsTagged(e, tag) : TRUE

\* Where the parsing of an invalid window stops: name, tag, size, pos, widget.
WindowFailureAt(e, at) ==
    IF ~Has(e, "name") \/ e.tag # "window" THEN at
    ELSE IF Cardinality(KidsTagged(e, "size")) # 1 THEN at
    ELSE IF ~ValidXY(e.kids[TheKid(e, "size")]) THEN Append(at, TheKid(e, "size"))
    ELSE IF Cardinality(KidsTagged(e, "pos")) # 1 THEN at
    ELSE IF ~ValidXY(e.kids[TheKid(e, "pos")]) THEN Append(at, TheKid(e, "pos"))
    ELSE IF Cardinality(KidsTagged(e, "widget")) # 1 THEN at
    ELSE Append(at, TheKid(e, "widget"))

\* The first failure in the order the assembler works: the definitions
\* section, then the windows section, then the single variables block.
FirstFailure ==
    IF Cardinality(SectionsTagged("definitions")) # 1
    THEN [at |-> <<>>, what |-> "definitions"]
    ELSE IF InvalidIn("definitions") # {}
    THEN [at |-> <<TheSection("definitions"), Min(InvalidIn("definitions"))>>, what |-> "entry"]
    ELSE IF Cardinality(SectionsTagged("windows")) # 1
    THEN [at |-> <<>>, what |-> "windows"]
    ELSE IF InvalidIn("windows") # {}
    THEN LET i == Min(InvalidIn("windows"))
         IN  [at |-> WindowFailureAt(KidsOfSection("windows")[i], <<TheSection("windows"), i>>),
              what |-> "entry"]
    ELSE IF Cardinality(SectionsTagged("variables")) = 1 /\ InvalidIn("variables") # {}
    THEN [at |-> <<TheSection("variables"), Min(InvalidIn("variables"))>>, what |-> "entry"]
    ELSE [at |-> <<>>, what |-> "none"]

\* C7, amended: the assembly always returns, a configuration or an error and
\* never both; the error it returns is the first failure in the order in
\* which the assembler works (definitions section and its children, windows
\* section and its children - name, tag, size, pos, widget inside a window -,
\* then the children of the single variables block), wherever the sections
\* stand in the document.
C7_FirstInProcessingOrder ==
    Parsed =>
        /\ result # None
        /\ result.ok <=> FirstFailure.what = "none"
        /\ ~result.ok =>
             /\ "val" \notin DOMAIN result
             /\ result.at = FirstFailure.at
             /\ FirstFailure.at = <<>> => result.what = FirstFailure.what

C7_Witness ==
    /\ Failed
    /\ Cardinality(SectionsTagged("variables")) <= 1
    /\ \E p \in InvalidEntries : p # result.at /\ Before(p, result.at)
    /\ Len(result.at) = 2
    /\ document.kids[result.at[1]].tag = "definitions"

SectionOfFailure == IF Len(result.at) = 0 THEN "root" ELSE document.kids[result.at[1]].tag

C9_SeveralVariablesBlocks ==
    (Parsed /\ Cardinality(SectionsTagged("variables")) >= 2) =>
        /\ SectionsValid =>
             /\ result.ok
             /\ config.initial_variables = EmptyMap
             /\ config.script_vars = <<>>
        /\ ~result.ok => SectionOfFailure # "variables"

C9_Witness ==
    /\ Loaded
    /\ Cardinality(SectionsTagged("variables")) >= 2
    /\ \E s \in SectionsTagged("variables") : \E i \in DOMAIN document.kids[s].kids :
         document.kids[s].kids[i].tag = "foo"
    /\ \E s \in SectionsTagged("variables") : \E i \in DOMAIN document.kids[s].kids :
         ValidVar(document.kids[s].kids[i])
    /\ config.initial_variables = EmptyMap

\* The default of a var element: the text of its only child, the empty text
\* when it has no child or several.
DefaultOf(e) ==
    parse_string(IF Len(e.kids) = 1
                 THEN (IF IsText(e.kids[1]) THEN e.kids[1].text ELSE as_tag_string(e.kids[1]))
                 ELSE "")

\* C10: a var element with a name attribute never makes the assembly fail,
\* whatever its children; its default is the text of its only child, and the
\* empty text when it has no child or more than one.
C10_VarChildrenNeverFail ==
    /\ (Failed /\ SectionOfFailure = "variables") =>
          ~ValidVar(document.kids[result.at[1]].kids[result.at[2]])
    /\ Loaded =>
          \A i \in DOMAIN IteratedVariables :
             LET e == IteratedVariables[i] IN
             (ValidVar(e) /\ i = Max(Named_(IteratedVariables, "var", e.attrs["name"])))
             => config.initial_variables[e.attrs["name"]] = DefaultOf(e)

C10_Witness ==
    /\ Loaded
    /\ \E i \in DOMAIN IteratedVariables :
         LET e == IteratedVariables[i] IN
         /\ ValidVar(e)
         /\ Len(e.kids) > 1
         /\ i = Max(Named_(IteratedVariables, "var", e.attrs["name"]))
         /\ config.initial_variables[e.attrs["name"]] = [kind |-> "String", text |-> ""]
    /\ \E i \in DOMAIN IteratedVariables : IteratedVariables[i].tag = "script-var"

====
